---- MODULE Spec2Model ----
(***************************************************************************)
(* A model of the transport and connection-lifecycle layer of hebcal-mcp.  *)
(*                                                                         *)
(*  - The Push Transport: class SseServerTransport (sse-transport.ts) and  *)
(*    the GET /mcp route of src/index.ts that opens it, with its           *)
(*    keep-alive interval and its request 'close' observer.                *)
(*  - The Stateless Request Transport: the POST /mcp route of              *)
(*    src/server.ts, one StreamableHTTPServerTransport per request,        *)
(*    connected to the module-level McpServer.                             *)
(*                                                                         *)
(* Node runs one callback at a time, so every action below is one callback *)
(* (or the synchronous part of a handler up to its next await).            *)
(***************************************************************************)
EXTENDS Integers, Sequences, FiniteSets, TLC

(***************************************************************************)
(* Bounds of the model.                                                    *)
(***************************************************************************)
MaxSends == 2
MaxCloseCalls == 2
MaxBeats == 2

Conns == {"c1", "c2"}

\* The frame the keep-alive interval writes, ": keepalive\n\n"; a data frame
\* "data: <json>\n\n" is represented by the number of the message it carries.
KeepAlive == 0

Exchanges == {"e1", "e2", "e3"}

\* JSON-RPC request ids a client may use; a notification carries none.
ReqIds == {1, 2}
NoId == 0

\* The value of an unset reference (server._transport is undefined).
None == "none"

\* The verbs a client may use at /mcp besides POST.
OtherVerbs == {"GET", "DELETE", "HEAD", "PUT", "PATCH", "OPTIONS"}

\* The JSON-RPC error codes of the two error envelopes of server.ts.
InternalError == -32603
NotAllowedCode == -32000

VARIABLES
    sse,      \* Conns -> the state of one SseServerTransport and of its route
    post,     \* Exchanges -> the state of one POST /mcp exchange
    binding,  \* the transport the module-level McpServer is connected to
    collided, \* a request arrived with the id of an exchange that was not over
    call,     \* one tools/call request on its way through the server
    session,  \* Conns -> a Push Transport with the header it was opened with
    proc,     \* the server process: running, or how it went down
    parse     \* one call of isoDateStringToDate: its string and its outcome

sseVars == <<sse>>
postVars == <<post, binding, collided>>
toolVars == <<call>>
sessionVars == <<session>>
procVars == <<proc>>
dateVars == <<parse>>
vars == <<sse, post, binding, collided, call, session, proc, parse>>

(***************************************************************************)
(* One SseServerTransport instance with the response object it wraps, the  *)
(* keep-alive interval of its route, and counters of what was observed.    *)
(*   live       the constructor has run                                    *)
(*   res        this.res is not null                                       *)
(*   ended      res.writableEnded of the response object                   *)
(*   onclose    this.onclose is assigned      (likewise onerror)           *)
(*   started    start() has been called                                    *)
(*   timer      keepAliveInterval is scheduled                             *)
(*   routed     the instance was made by the GET /mcp route                *)
(*   reqClosed  the request's 'close' event has fired                      *)
(*   frames     what has been written to the response, in order            *)
(*   nclose     number of onclose notifications (nerror: onerror)          *)
(*   starts     number of start() calls that resolved                      *)
(*   headers    the response headers set                                   *)
(*   flushed    the headers were sent to the peer (res.flushHeaders())     *)
(***************************************************************************)
NoTransport ==
    [live |-> FALSE, res |-> FALSE, ended |-> FALSE, onclose |-> FALSE,
     onerror |-> FALSE, started |-> FALSE, timer |-> FALSE, routed |-> FALSE,
     reqClosed |-> FALSE, frames |-> <<>>, nclose |-> 0, nerror |-> 0,
     closeCalls |-> 0, sendCalls |-> 0, okSends |-> 0, lastSend |-> "none",
     beats |-> 0, closesAtDisc |-> 0, starts |-> 0, headers |-> {},
     flushed |-> FALSE]

\* The headers the constructor sets with res.setHeader.
EventStreamHeaders ==
    {<<"Content-Type", "text/event-stream">>, <<"Cache-Control", "no-cache">>,
     <<"Connection", "keep-alive">>, <<"X-Accel-Buffering", "no">>}

\* A constructor that sets the headers and leaves it to the first write to
\* send them.
NewSseTransportNoFlush ==
    [NoTransport EXCEPT !.live = TRUE, !.res = TRUE, !.headers = EventStreamHeaders]

\* new SseServerTransport(req, res): keeps the response, sets and flushes the
\* headers and registers its listeners.
NewSseTransport ==
    [NoTransport EXCEPT !.live = TRUE, !.res = TRUE,
                        !.headers = EventStreamHeaders, !.flushed = TRUE]

\* this.on("closeInternal", ...): forwards to onclose when it is assigned.
EmitCloseInternal(t) ==
    IF t.onclose THEN [t EXCEPT !.nclose = @ + 1] ELSE t

\* this.on("errorInternal", ...): forwards to onerror when it is assigned.
EmitErrorInternal(t) ==
    IF t.onerror THEN [t EXCEPT !.nerror = @ + 1] ELSE t

\* A constructor listener that keeps the response after the peer has gone.
OnReqCloseKeepRes(t) == EmitCloseInternal(t)

\* req.on("close", ...) of the constructor: emits closeInternal, drops res.
OnReqClose(t) == [EmitCloseInternal(t) EXCEPT !.res = FALSE]

\* start(): only logs, and resolves.
TransportStart(t) == [t EXCEPT !.started = TRUE, !.starts = @ + 1]

\* The guard of send(): !this.res || this.res.writableEnded is the failure.
Writable(t) == t.res /\ ~t.ended

\* A send() that puts its frame at the head of what was written.
SendWriteFront(fr, m) == <<m>> \o fr

\* The frames send(message) leaves on the channel.
SendWrite(fr, m) == Append(fr, m)

\* A send() that drops the message of a dead channel silently.
SendFailSilent(t) == [t EXCEPT !.lastSend = "resolved"]

\* What send(message) does when the channel is not writable.
SendFail(t) == [EmitErrorInternal(t) EXCEPT !.lastSend = "rejected"]

\* send(message).
TransportSend(t, m) ==
    IF ~Writable(t)
    THEN SendFail(t)
    ELSE [t EXCEPT !.frames = SendWrite(@, m), !.lastSend = "resolved"]

\* A close() without its "if (this.res)" guard.
TransportCloseNoGuard(t) ==
    EmitCloseInternal([t EXCEPT !.ended = TRUE, !.res = FALSE])

\* close().
TransportClose(t) ==
    IF t.res
    THEN EmitCloseInternal([t EXCEPT !.ended = TRUE, !.res = FALSE])
    ELSE t

\* server.connect(transport) of the route: the SDK assigns the transport's
\* onclose, onerror and onmessage and then calls transport.start().
ServerConnect(t) ==
    TransportStart([t EXCEPT !.onclose = TRUE, !.onerror = TRUE])

\* A keep-alive callback without its writableEnded check.
KeepAliveTickAlways(t) == [t EXCEPT !.frames = Append(@, KeepAlive)]

\* A keep-alive that fires once: a timeout in place of the interval.
KeepAliveTickOnce(t) ==
    IF t.ended
    THEN [t EXCEPT !.timer = FALSE]
    ELSE [t EXCEPT !.frames = Append(@, KeepAlive), !.timer = FALSE]

\* The callback of keepAliveInterval.
KeepAliveTick(t) ==
    IF t.ended
    THEN [t EXCEPT !.timer = FALSE]
    ELSE [t EXCEPT !.frames = Append(@, KeepAlive)]

\* A route observer that forgets clearInterval.
RouteOnReqCloseKeepTimer(t) == TransportClose(t)

\* req.on("close", ...) of the route: clearInterval, then transport.close().
RouteOnReqClose(t) == TransportClose([t EXCEPT !.timer = FALSE])

\* The whole GET /mcp handler.
RouteGetMcp == [ServerConnect(NewSseTransport) EXCEPT !.timer = TRUE, !.routed = TRUE]

(***************************************************************************)
(* Actions of the Push Transport. The bounds limit the number of send()    *)
(* calls, close() calls and keep-alive ticks of a run, over all            *)
(* connections together.                                                   *)
(***************************************************************************)
RECURSIVE Total(_, _)
Total(S, field) ==
    IF S = {} THEN 0
    ELSE LET c == CHOOSE x \in S : TRUE
         IN  sse[c][field] + Total(S \ {c}, field)

\* GET /mcp is accepted.
GetMcp(c) ==
    /\ ~sse[c].live
    /\ sse' = [sse EXCEPT ![c] = RouteGetMcp]
    /\ UNCHANGED <<postVars, toolVars, sessionVars, procVars, dateVars>>

\* A caller constructs the transport itself, without the route.
Construct(c) ==
    /\ ~sse[c].live
    /\ sse' = [sse EXCEPT ![c] = NewSseTransport]
    /\ UNCHANGED <<postVars, toolVars, sessionVars, procVars, dateVars>>

\* The owner assigns the public callbacks onclose and onerror.
SetCallbacks(c) ==
    /\ sse[c].live
    /\ ~sse[c].onclose
    /\ sse' = [sse EXCEPT ![c] = [@ EXCEPT !.onclose = TRUE, !.onerror = TRUE]]
    /\ UNCHANGED <<postVars, toolVars, sessionVars, procVars, dateVars>>

\* The owner calls start().
Start(c) ==
    /\ sse[c].live
    /\ ~sse[c].started
    /\ sse' = [sse EXCEPT ![c] = TransportStart(@)]
    /\ UNCHANGED <<postVars, toolVars, sessionVars, procVars, dateVars>>

\* The owner calls send(message); messages are numbered in the order of the calls.
Send(c) ==
    /\ sse[c].live
    /\ Total(Conns, "sendCalls") < MaxSends
    /\ LET m == sse[c].sendCalls + 1
           t == TransportSend(sse[c], m)
       IN  sse' = [sse EXCEPT ![c] =
                     [t EXCEPT !.sendCalls = m,
                               !.okSends = IF t.lastSend = "resolved" THEN @ + 1 ELSE @]]
    /\ UNCHANGED <<postVars, toolVars, sessionVars, procVars, dateVars>>

\* The owner calls close().
Close(c) ==
    /\ sse[c].live
    /\ Total(Conns, "closeCalls") < MaxCloseCalls
    /\ sse' = [sse EXCEPT ![c] = [TransportClose(@) EXCEPT !.closeCalls = @ + 1]]
    /\ UNCHANGED <<postVars, toolVars, sessionVars, procVars, dateVars>>

\* The keep-alive interval fires.
Heartbeat(c) ==
    /\ sse[c].timer
    /\ Total(Conns, "beats") < MaxBeats
    /\ sse' = [sse EXCEPT ![c] = [KeepAliveTick(@) EXCEPT !.beats = @ + 1]]
    /\ UNCHANGED <<postVars, toolVars, sessionVars, procVars, dateVars>>

\* A route whose keep-alive interval is one variable shared by all
\* connections: the close observer of one connection cancels every interval.
ReqCloseSharedTimer(c) ==
    /\ sse[c].live
    /\ ~sse[c].reqClosed
    /\ LET t0 == [sse[c] EXCEPT !.reqClosed = TRUE, !.closesAtDisc = sse[c].closeCalls]
           t1 == OnReqClose(t0)
       IN  sse' = [d \in Conns |->
                     IF d = c
                     THEN IF t1.routed THEN RouteOnReqClose(t1) ELSE t1
                     ELSE [sse[d] EXCEPT !.timer = FALSE]]
    /\ UNCHANGED <<postVars, toolVars, sessionVars, procVars, dateVars>>

\* The request's 'close' event: the peer is gone (or the ended response's
\* socket was released). The listeners run in the order they were registered:
\* the constructor's first, then the route's.
ReqClose(c) ==
    /\ sse[c].live
    /\ ~sse[c].reqClosed
    /\ LET t0 == [sse[c] EXCEPT !.reqClosed = TRUE, !.closesAtDisc = sse[c].closeCalls]
           t1 == OnReqClose(t0)
       IN  sse' = [sse EXCEPT ![c] = IF t1.routed THEN RouteOnReqClose(t1) ELSE t1]
    /\ UNCHANGED <<postVars, toolVars, sessionVars, procVars, dateVars>>

(***************************************************************************)
(* The Stateless Request Transport: POST /mcp of src/server.ts.            *)
(*                                                                         *)
(* One exchange:                                                           *)
(*   pc        "idle": not arrived; "connecting": the handler constructed  *)
(*             the transport, registered the close observer, called        *)
(*             server.connect and waits on it; "dispatched": handleRequest *)
(*             wrote the status line and handed the request to the engine; *)
(*             "done": the engine's reply was sent, or there was none      *)
(*   id        the request's id (NoId for a notification)                  *)
(*   status    the HTTP status written (0: headers not sent)               *)
(*   pending   the transport holds an open stream for request id           *)
(*   captured  the server's transport when the request was dispatched      *)
(*   chan      the response messages written to this HTTP response, each   *)
(*             with the exchange whose request caused it                   *)
(*   ended     the HTTP response was ended                                 *)
(*   tClosed   transport.close() has run                                   *)
(*   resClosed the response's 'close' event has fired                      *)
(*   lost      the engine's reply reached no response                      *)
(*   verb      the HTTP verb of the request                                *)
(*   errCode   the code of the JSON error envelope written as the body     *)
(*             (0: no envelope), errVerb the verb its message names        *)
(* pc is "failed" when the handler's catch block has run.                  *)
(***************************************************************************)
NoExchange ==
    [pc |-> "idle", id |-> NoId, status |-> 0, pending |-> FALSE,
     captured |-> None, chan |-> <<>>, ended |-> FALSE, tClosed |-> FALSE,
     resClosed |-> FALSE, lost |-> FALSE, verb |-> "", errCode |-> 0,
     errVerb |-> ""]

\* The handler up to its first await: new StreamableHTTPServerTransport,
\* res.on('close', ...), and the call of server.connect(transport).
NewExchange(id) ==
    [NoExchange EXCEPT !.pc = "connecting", !.id = id, !.verb = "POST"]

\* server.connect(transport) on the module-level server: the server keeps one
\* transport, the one connected last.
ServerConnectTo(b, e) == e

\* The server's onclose, which connect installs on every transport: the server
\* drops its transport.
ServerOnClose(b, e) == None

\* A handler without the close observer: the channel closes and nothing
\* closes the transport.
StatelessCloseUnobserved(x) == [x EXCEPT !.resClosed = TRUE]

\* transport.close(), called by the close observer: ends the open stream,
\* forgets the request it was waiting for, and notifies onclose.
StatelessClose(x) ==
    [x EXCEPT !.tClosed = TRUE, !.pending = FALSE, !.ended = TRUE, !.resClosed = TRUE]

\* A handler that closes the transport itself as soon as handleRequest has
\* returned, before the engine's reply.
HandleRequestThenClose(x, b) ==
    IF x.id = NoId
    THEN [x EXCEPT !.pc = "done", !.status = IF x.resClosed THEN @ ELSE 202,
                   !.ended = TRUE, !.tClosed = TRUE]
    ELSE [x EXCEPT !.pc = "dispatched", !.status = IF x.resClosed THEN @ ELSE 200,
                   !.pending = FALSE, !.captured = b, !.ended = TRUE,
                   !.tClosed = TRUE]

\* A handleRequest that treats a notification as a request: status 200 and an
\* open event stream.
HandleRequestNoAck(x, b) ==
    [x EXCEPT !.pc = "dispatched", !.status = IF x.resClosed THEN @ ELSE 200,
              !.pending = ~x.tClosed, !.captured = b]

\* transport.handleRequest(req, res, req.body): a notification is answered
\* 202 with no body; a request gets status 200, an open event stream kept
\* under its id, and is handed to the engine.
HandleRequest(x, b) ==
    IF x.id = NoId
    THEN [x EXCEPT !.pc = "done", !.status = IF x.resClosed THEN @ ELSE 202,
                   !.ended = TRUE]
    ELSE [x EXCEPT !.pc = "dispatched", !.status = IF x.resClosed THEN @ ELSE 200,
                   !.pending = ~x.tClosed, !.captured = b]

\* A notAllowed that answers every verb with one fixed message.
NotAllowedFixedMessage(x, verb) ==
    [x EXCEPT !.pc = "done", !.verb = verb, !.status = 405,
              !.errCode = NotAllowedCode, !.errVerb = "",
              !.ended = TRUE, !.resClosed = TRUE]

\* notAllowed(req, res): writeHead(405).end(<envelope naming req.method>).
\* The response of a HEAD request carries no body. Nothing observes the end
\* of this exchange.
NotAllowed(x, verb) ==
    [x EXCEPT !.pc = "done", !.verb = verb, !.status = 405,
              !.errCode = IF verb = "HEAD" THEN 0 ELSE NotAllowedCode,
              !.errVerb = IF verb = "HEAD" THEN "" ELSE verb,
              !.ended = TRUE, !.resClosed = TRUE]

\* What Express answers for a verb no route of /mcp is registered for:
\* OPTIONS gets 200 with an Allow header, any other verb 404.
ExpressDefault(x, verb) ==
    [x EXCEPT !.pc = "done", !.verb = verb,
              !.status = IF verb = "OPTIONS" THEN 200 ELSE 404,
              !.ended = TRUE, !.resClosed = TRUE]

\* The routes of /mcp besides POST: app.get and app.delete go to notAllowed,
\* and Express gives a HEAD request to the GET route.
StatelessRoute(x, verb) ==
    IF verb \in {"GET", "DELETE", "HEAD"}
    THEN NotAllowed(x, verb)
    ELSE ExpressDefault(x, verb)

\* A catch block that writes its envelope whatever was sent before.
CatchErrorAlways(x) ==
    IF x.resClosed
    THEN [x EXCEPT !.pc = "failed"]
    ELSE [x EXCEPT !.pc = "failed", !.status = IF @ = 0 THEN 500 ELSE @,
                   !.errCode = InternalError, !.ended = TRUE]

\* The catch block of the POST handler: if (!res.headersSent) the 500
\* envelope is written and the response ended; otherwise nothing is done.
CatchError(x) ==
    IF x.status = 0 /\ ~x.resClosed
    THEN [x EXCEPT !.pc = "failed", !.status = 500,
                   !.errCode = InternalError, !.ended = TRUE]
    ELSE [x EXCEPT !.pc = "failed"]

\* A transport that writes any response to the stream it holds open.
AcceptsAnyId(t, id) == t.pending

\* Whether transport t accepts a response to request id: it holds an open
\* stream for exactly that id.
Accepts(t, id) == t.pending /\ t.id = id

\* The transport writes the response as one event frame and ends the stream.
Deliver(t, from, id) ==
    [t EXCEPT !.chan = Append(@, [from |-> from, id |-> id]),
              !.ended = TRUE, !.pending = FALSE]

\* The exchange's HTTP channel is open.
InFlight(e) == post[e].pc # "idle" /\ ~post[e].resClosed

\* The exchange is not over: its channel is open or its handler or the engine
\* still works on its request.
Active(e) ==
    post[e].pc # "idle" /\ ~(post[e].resClosed /\ post[e].pc \in {"done", "failed"})

\* POST /mcp arrives: the handler runs up to "await server.connect(transport)".
PostStart(e) ==
    /\ post[e].pc = "idle"
    /\ \E id \in ReqIds \cup {NoId} :
          /\ post' = [post EXCEPT ![e] = NewExchange(id)]
          /\ collided' = (collided \/ (id # NoId /\ \E f \in Exchanges :
                                          Active(f) /\ post[f].id = id))
    /\ binding' = ServerConnectTo(binding, e)
    /\ UNCHANGED <<sseVars, toolVars, sessionVars, procVars, dateVars>>

\* The handler resumes and runs "await transport.handleRequest(...)".
PostHandle(e) ==
    /\ post[e].pc = "connecting"
    /\ post' = [post EXCEPT ![e] = HandleRequest(@, binding)]
    /\ UNCHANGED <<binding, collided, sseVars, toolVars, sessionVars, procVars, dateVars>>

\* The engine has the result of e's request and sends the response through
\* the server's transport: the one captured at dispatch or the one connected
\* now, depending on the SDK's version.
EngineRespond(e) ==
    /\ post[e].pc = "dispatched"
    /\ \E target \in {post[e].captured, binding} :
          LET x == [post[e] EXCEPT !.pc = "done"]
              p == [post EXCEPT ![e] = x]
          IN  IF target # None /\ Accepts(p[target], x.id)
              THEN post' = [p EXCEPT ![target] = Deliver(@, e, x.id)]
              ELSE post' = [p EXCEPT ![e] = [@ EXCEPT !.lost = TRUE]]
    /\ UNCHANGED <<binding, collided, sseVars, toolVars, sessionVars, procVars, dateVars>>

\* The response's 'close' event (the exchange completed, or the peer left):
\* the observer calls transport.close(), which notifies the server.
ResClose(e) ==
    /\ InFlight(e)
    /\ post' = [post EXCEPT ![e] = StatelessClose(@)]
    /\ binding' = ServerOnClose(binding, e)
    /\ UNCHANGED <<collided, sseVars, toolVars, sessionVars, procVars, dateVars>>

\* The try block throws: server.connect rejects, or handleRequest throws
\* before it wrote anything ("early") or after it wrote the status line and
\* opened the stream ("late"). The catch block runs.
PostFail(e) ==
    /\ post[e].pc = "connecting"
    /\ \E point \in {"connect", "early", "late"} :
          LET x == IF point = "late" THEN HandleRequest(post[e], binding) ELSE post[e]
          IN  post' = [post EXCEPT ![e] = CatchError(x)]
    /\ UNCHANGED <<binding, collided, sseVars, toolVars, sessionVars, procVars, dateVars>>

\* A request at /mcp with another verb than POST.
OtherVerb(e) ==
    /\ post[e].pc = "idle"
    /\ \E verb \in OtherVerbs :
          post' = [post EXCEPT ![e] = StatelessRoute(@, verb)]
    /\ UNCHANGED <<binding, collided, sseVars, toolVars, sessionVars, procVars, dateVars>>

PostNext ==
    \E e \in Exchanges :
        \/ PostStart(e)
        \/ PostHandle(e)
        \/ EngineRespond(e)
        \/ ResClose(e)
        \/ PostFail(e)
        \/ OtherVerb(e)

(***************************************************************************)
(* The tools of getServer() and one tools/call request on its way through  *)
(* POST /mcp, the exchange alone on the server.                            *)
(*                                                                         *)
(* A string that the code inspects by character is a sequence of           *)
(* one-character strings.                                                  *)
(***************************************************************************)
Tools ==
    {"convert-gregorian-to-hebrew", "convert-hebrew-to-gregorian", "yahrzeit",
     "torah-portion", "jewish-holidays-year", "daf-yomi", "candle-lighting"}

\* The names a client may ask for: the registered ones and one that is not.
ToolNames == Tools \cup {"non-existent-tool"}

D_Iso == <<"2", "0", "2", "4", "-", "0", "1", "-", "1", "5">>
D_Words == <<"i", "n", "v", "a", "l", "i", "d", "-", "d", "a", "t", "e">>
D_Slashes == <<"2", "0", "2", "4", "/", "0", "1", "/", "1", "5">>
D_ShortYear == <<"2", "4", "-", "0", "1", "-", "1", "5">>
D_Trailing == <<"2", "0", "2", "4", "-", "0", "1", "-", "1", "5", "T", "9">>
D_Rollover == <<"2", "0", "2", "4", "-", "1", "3", "-", "4", "5">>
D_LowYear == <<"0", "0", "5", "0", "-", "0", "6", "-", "1", "5">>
D_Empty == <<>>

\* The date arguments tried.
DateInputs ==
    {D_Iso, D_Words, D_Slashes, D_ShortYear, D_Trailing, D_Rollover, D_LowYear,
     D_Empty}

\* The endDate arguments tried (candle-lighting).
EndDateInputs == {D_Iso, D_Words}

\* The month names HDate.monthFromName interprets, and the month arguments
\* tried.
HebrewMonths ==
    {"Nisan", "Iyyar", "Sivan", "Tamuz", "Av", "Elul", "Tishrei", "Cheshvan",
     "Kislev", "Tevet", "Sh'vat", "Adar", "Adar I", "Adar II"}
MonthInputs == {"Elul", "Tishrei", "XYZ123NotAMonth"}

\* What the calendar library does when a handler calls into it: it returns
\* a value, returns nothing, or throws.
LibOutcomes == {"value", "nothing", "throws"}

\* How the SDK's tools/call handler reports a tool that is not registered:
\* it throws McpError(InvalidParams), or returns a result with isError.
SdkUnknownTool == {"throws", "isError"}

\* ErrorCode.InvalidParams of JSON-RPC.
InvalidParams == -32602

IsDigit(ch) == ch \in {"0", "1", "2", "3", "4", "5", "6", "7", "8", "9"}

\* A pattern anchored at both ends, /^\d\d\d\d-\d\d-\d\d$/.
ReIsoDateAnchored(str) ==
    /\ Len(str) = 10
    /\ \A i \in {1, 2, 3, 4, 6, 7, 9, 10} : IsDigit(str[i])
    /\ str[5] = "-" /\ str[8] = "-"

\* reIsoDate.test(str), reIsoDate = /^\d\d\d\d-\d\d-\d\d/ : the pattern is
\* anchored at the start only.
ReIsoDate(str) ==
    /\ Len(str) >= 10
    /\ \A i \in {1, 2, 3, 4, 6, 7, 9, 10} : IsDigit(str[i])
    /\ str[5] = "-" /\ str[8] = "-"

\* A pattern that accepts every string.
ReIsoDateAny(str) == TRUE

\* isoDateStringToDate(str) throws its RangeError.
IsoDateThrows(str) == ~ReIsoDate(str)

(***************************************************************************)
(* isoDateStringToDate.  A Date is the record of its local calendar        *)
(* fields: y the full year, m the month index (0 is January), d the day of *)
(* the month.                                                              *)
(***************************************************************************)
DigitValue(ch) ==
    CASE ch = "0" -> 0 [] ch = "1" -> 1 [] ch = "2" -> 2 [] ch = "3" -> 3
      [] ch = "4" -> 4 [] ch = "5" -> 5 [] ch = "6" -> 6 [] ch = "7" -> 7
      [] ch = "8" -> 8 [] ch = "9" -> 9

RECURSIVE ParseIntFrom(_, _, _)
ParseIntFrom(str, i, acc) ==
    IF i > Len(str) \/ ~IsDigit(str[i])
    THEN acc
    ELSE ParseIntFrom(str, i + 1, acc * 10 + DigitValue(str[i]))

\* parseInt(str, 10) of a string that begins with a digit: the value of its
\* leading digits, whatever follows them.
ParseInt(str) == ParseIntFrom(str, 1, 0)

\* str.substring(a, b)
Substring(str, a, b) ==
    SubSeq(str, a + 1, IF b > Len(str) THEN Len(str) ELSE b)

IsLeap(y) == y % 4 = 0 /\ (y % 100 # 0 \/ y % 400 = 0)

\* The length of the month with index m (0..11) of year y.
DaysInMonth(y, m) ==
    IF m = 1 THEN (IF IsLeap(y) THEN 29 ELSE 28)
    ELSE IF m \in {3, 5, 8, 10} THEN 30
    ELSE 31

\* A day number outside the month is carried into the months before or
\* after it.
RECURSIVE CarryDays(_, _, _)
CarryDays(y, m, d) ==
    IF d < 1
    THEN LET py == IF m = 0 THEN y - 1 ELSE y
             pm == IF m = 0 THEN 11 ELSE m - 1
         IN  CarryDays(py, pm, d + DaysInMonth(py, pm))
    ELSE IF d > DaysInMonth(y, m)
    THEN CarryDays(IF m = 11 THEN y + 1 ELSE y, IF m = 11 THEN 0 ELSE m + 1,
                   d - DaysInMonth(y, m))
    ELSE [kind |-> "date", y |-> y, m |-> m, d |-> d, msg |-> ""]

\* MakeDay of ECMAScript: a month index outside 0..11 is carried into the
\* year, then the days are carried.
MakeDay(y, m, d) == CarryDays(y + (m \div 12), m % 12, d)

\* new Date(year, monthIndex, day): a year from 0 to 99 means 1900 + year.
NewDate(yy, m, d) == MakeDay(IF yy >= 0 /\ yy <= 99 THEN 1900 + yy ELSE yy, m, d)

\* dt.setFullYear(yy): the year is replaced, month and day are kept and
\* carried again.
SetFullYear(dt, yy) == MakeDay(yy, dt.m, dt.d)

\* throw new RangeError(`Date does not match format YYYY-MM-DD: ${str}`),
\* the message named by how it begins.
RangeError ==
    [kind |-> "RangeError", y |-> 0, m |-> 0, d |-> 0,
     msg |-> "Date does not match format YYYY-MM-DD"]

\* isoDateStringToDate(str)
IsoDateStringToDate(str) ==
    IF ~ReIsoDate(str)
    THEN RangeError
    ELSE LET yy == ParseInt(str)
             mm == ParseInt(Substring(str, 5, 7))
             dd == ParseInt(Substring(str, 8, 10))
             dt == NewDate(yy, mm - 1, dd)
         IN  IF yy < 100 THEN SetFullYear(dt, yy) ELSE dt

\* The strings tried: year, month and day fields, joined by "-" and followed
\* by nothing or by more characters, and the strings of DateInputs.
YearFields ==
    {<<"0", "0", "0", "0">>, <<"0", "0", "0", "4">>, <<"0", "0", "5", "0">>,
     <<"0", "0", "9", "9">>, <<"0", "1", "0", "0">>, <<"1", "9", "0", "0">>,
     <<"2", "0", "2", "3">>, <<"2", "0", "2", "4">>}
MonthFields ==
    {<<"0", "0">>, <<"0", "1">>, <<"0", "2">>, <<"0", "4">>, <<"1", "2">>,
     <<"1", "3">>, <<"9", "9">>}
DayFields ==
    {<<"0", "0">>, <<"0", "1">>, <<"2", "8">>, <<"2", "9">>, <<"3", "0">>,
     <<"3", "1">>, <<"3", "2">>, <<"9", "9">>}
Suffixes == {<<>>, <<"T", "9">>, <<"x">>}
IsoInputs ==
    {yf \o <<"-">> \o mf \o <<"-">> \o df \o sf :
        yf \in YearFields, mf \in MonthFields, df \in DayFields, sf \in Suffixes}
    \cup DateInputs

NoParse == [pc |-> "idle", str |-> <<>>, out |-> RangeError]

\* isoDateStringToDate is called with a string.
IsoCall ==
    /\ parse.pc = "idle"
    /\ \E str \in IsoInputs : parse' = [parse EXCEPT !.pc = "called", !.str = str]
    /\ UNCHANGED <<sseVars, postVars, toolVars, sessionVars, procVars>>

\* The call returns its Date or throws.
IsoReturn ==
    /\ parse.pc = "called"
    /\ parse' = [parse EXCEPT !.pc = "returned",
                              !.out = IsoDateStringToDate(parse.str)]
    /\ UNCHANGED <<sseVars, postVars, toolVars, sessionVars, procVars>>

DateNext == IsoCall \/ IsoReturn

\* What a handler gives back: a content card with a text (named by how the
\* text begins), or an exception.
Card(text) == [kind |-> "card", text |-> text]
Thrown == [kind |-> "thrown", text |-> ""]

\* errorCard(message)
ErrorCard(message) == Card(message)

\* A library call's value, or the exception it raised.
Lib(lib, text) == IF lib = "throws" THEN Thrown ELSE Card(text)

\* A handler that lets the RangeError of isoDateStringToDate escape.
DateToolNoCatch(date, lib, text) ==
    IF IsoDateThrows(date) THEN Thrown ELSE Lib(lib, text)

\* The common shape of the handlers taking one date: parse inside try/catch,
\* the error card on failure, the library's answer otherwise.
DateTool(date, lib, text) ==
    IF IsoDateThrows(date)
    THEN ErrorCard("Error parsing date")
    ELSE Lib(lib, text)

\* convert-gregorian-to-hebrew
GregorianToHebrew(a, lib) == DateTool(a.date, lib, "Hebrew year")

\* A convert-hebrew-to-gregorian without the try/catch around monthFromName.
HebrewToGregorianNoCatch(a, lib) ==
    IF a.month \notin HebrewMonths THEN Thrown ELSE Lib(lib, "YYYY-MM-DD")

\* convert-hebrew-to-gregorian
HebrewToGregorian(a, lib) ==
    IF a.month \notin HebrewMonths
    THEN ErrorCard("Cannot interpret")
    ELSE Lib(lib, "YYYY-MM-DD")

\* The lines pushed for the anniversaries getYahrzeitHD found in the Hebrew
\* years scanned: none, or one (named by how it begins).
YahrzeitRows(lib) == IF lib = "nothing" THEN <<>> ELSE <<"| 1 |">>

\* A doYahrzeit whose lines start empty.
DoYahrzeitRowsOnly(lib) == YahrzeitRows(lib)

\* doYahrzeit(dt, afterSunset): the lines returned, the two header lines
\* (named by how they begin) and then one line for each anniversary found.
DoYahrzeit(lib) == <<"| Anniversary number", "| ---- |">> \o YahrzeitRows(lib)

\* yahrzeit
Yahrzeit(a, lib) ==
    IF IsoDateThrows(a.date) THEN ErrorCard("Error parsing date")
    ELSE IF lib = "throws" THEN Thrown
    ELSE IF Len(DoYahrzeit(lib)) = 0 THEN ErrorCard("No yahrzeit available")
    ELSE Card(DoYahrzeit(lib)[1])

\* torah-portion
TorahPortion(a, lib) == DateTool(a.date, lib, "Torah portion")

\* jewish-holidays-year
HolidaysYear(a, lib) == Lib(lib, "| Gregorian date")

\* daf-yomi
DafYomi(a, lib) ==
    IF IsoDateThrows(a.date) THEN ErrorCard("Error parsing date")
    ELSE IF lib = "throws" THEN Thrown
    ELSE IF lib = "nothing" THEN ErrorCard("Can't find Daf Yomi")
    ELSE Card("Daf Yomi")

\* A candle-lighting handler that parses the start date only before it
\* calls candleLighting.
CandleLightingStartOnly(a, lib) ==
    IF IsoDateThrows(a.date)
    THEN ErrorCard("Error parsing dates")
    ELSE IF IsoDateThrows(a.date) \/ IsoDateThrows(a.endDate) THEN Thrown
    ELSE Lib(lib, "| Date | Time")

\* candle-lighting: both dates are parsed in the handler, and again in
\* candleLighting.
CandleLighting(a, lib) ==
    IF IsoDateThrows(a.date) \/ IsoDateThrows(a.endDate)
    THEN ErrorCard("Error parsing dates")
    ELSE IF IsoDateThrows(a.date) \/ IsoDateThrows(a.endDate) THEN Thrown
    ELSE Lib(lib, "| Date | Time")

\* The callback registered under a name.
ToolHandler(name, a, lib) ==
    CASE name = "convert-gregorian-to-hebrew" -> GregorianToHebrew(a, lib)
      [] name = "convert-hebrew-to-gregorian" -> HebrewToGregorian(a, lib)
      [] name = "yahrzeit" -> Yahrzeit(a, lib)
      [] name = "torah-portion" -> TorahPortion(a, lib)
      [] name = "jewish-holidays-year" -> HolidaysYear(a, lib)
      [] name = "daf-yomi" -> DafYomi(a, lib)
      [] name = "candle-lighting" -> CandleLighting(a, lib)

\* A JSON-RPC response message: a result (with its text and isError) or an
\* error (with its code).
Result(id, text, isError) ==
    [id |-> id, member |-> "result", text |-> text, isError |-> isError, code |-> 0]
ErrorResponse(id, code) ==
    [id |-> id, member |-> "error", text |-> "", isError |-> FALSE, code |-> code]
NoReply == [id |-> NoId, member |-> "", text |-> "", isError |-> FALSE, code |-> 0]

\* An engine that answers an unregistered tool with the internal error.
UnknownToolInternal(id, sdk) == ErrorResponse(id, InternalError)

\* The SDK's answer to a tools/call naming no registered tool.
UnknownTool(id, sdk) ==
    IF sdk = "throws"
    THEN ErrorResponse(id, InvalidParams)
    ELSE Result(id, "Tool not found", TRUE)

\* The engine's answer to tools/call: the SDK looks the tool up, runs its
\* callback, and turns an exception of the callback into a result with
\* isError.
ToolsCall(r) ==
    IF r.name \notin Tools
    THEN UnknownTool(r.id, r.sdk)
    ELSE LET out == ToolHandler(r.name, r.args, r.lib)
         IN  IF out.kind = "thrown"
             THEN Result(r.id, "", TRUE)
             ELSE Result(r.id, out.text, FALSE)

\* The tool names in the order getServer() registers them.
Registrations ==
    <<"convert-gregorian-to-hebrew", "convert-hebrew-to-gregorian", "yahrzeit",
      "torah-portion", "jewish-holidays-year", "daf-yomi", "candle-lighting">>

\* getServer() calls told apart by their number.
ServerCalls == {1, 2}

\* The getServer() of the earlier app.ts, which has no candle-lighting.
GetServerOld(n) ==
    <<"convert-gregorian-to-hebrew", "convert-hebrew-to-gregorian", "yahrzeit",
      "torah-portion", "jewish-holidays-year", "daf-yomi">>

\* The tools of the server that the n-th call of getServer() returns: a new
\* McpServer with the registrations made in the function's body.
GetServer(n) == Registrations

\* The result of tools/list: the registered tools.
ListResult(id, tools) ==
    [id |-> id, member |-> "result", text |-> "", isError |-> FALSE, code |-> 0,
     tools |-> tools]

\* The engine's answer to tools/list.
ToolsList(r) == ListResult(r.id, GetServer(r.server))

\* The engine's answer to a request.
Engine(r) == IF r.method = "tools/list" THEN ToolsList(r) ELSE ToolsCall(r)

\* The requests tried.
ToolRequests ==
    [id : ReqIds, method : {"tools/call"}, name : ToolNames,
     args : [date : DateInputs, endDate : EndDateInputs, month : MonthInputs],
     lib : LibOutcomes, sdk : SdkUnknownTool]

ListRequests ==
    [id : ReqIds, method : {"tools/list"}, name : {""}, server : ServerCalls]

NoCall ==
    [pc |-> "idle", req |-> [name |-> ""], http |-> NoExchange, reply |-> NoReply]

\* POST /mcp with a tools/call or tools/list request: the handler connects a
\* transport and handleRequest hands the request to the engine.
ToolsPost ==
    /\ call.pc = "idle"
    /\ \E r \in ToolRequests \cup ListRequests :
          call' = [call EXCEPT !.pc = "dispatched", !.req = r,
                               !.http = HandleRequest(NewExchange(r.id), "e1")]
    /\ UNCHANGED <<sseVars, postVars, sessionVars, procVars, dateVars>>

\* The engine's reply is sent through the exchange's transport.
ToolsReply ==
    /\ call.pc = "dispatched"
    /\ LET m == Engine(call.req)
           x == [call.http EXCEPT !.pc = "done"]
       IN  call' = [call EXCEPT !.pc = "replied", !.reply = m,
                                !.http = IF Accepts(x, m.id)
                                         THEN Deliver(x, "e1", m.id)
                                         ELSE [x EXCEPT !.lost = TRUE]]
    /\ UNCHANGED <<sseVars, postVars, sessionVars, procVars, dateVars>>

ToolsNext == ToolsPost \/ ToolsReply

(***************************************************************************)
(* The session id of a Push Transport: the x-request-id header of the GET  *)
(* request, the id the constructor derives from it, and the transport's    *)
(* later life.                                                             *)
(***************************************************************************)
\* req.headers['x-request-id'] is undefined.
NoHeader == "<undefined>"

\* The values of the x-request-id header tried, and the strings
\* Math.random().toString(36).substring(2) may give.
HeaderValues == {NoHeader, "", "req-1", "req-2"}
RandomIds == {"rnd-1", "rnd-2"}

\* A constructor with ?? in place of ||: only a missing header is replaced.
SessionIdNullish(header, random) ==
    IF header # NoHeader THEN header ELSE random

\* this.sessionId = req.headers['x-request-id']?.toString() || <random>:
\* undefined and the empty string are falsy.
SessionId(header, random) ==
    IF header # NoHeader /\ header # "" THEN header ELSE random

NoSession == [t |-> NoTransport, header |-> NoHeader, sessionId |-> ""]

\* GET /mcp is accepted, with or without an x-request-id header.
SessAccept(c) ==
    /\ proc.state = "running"
    /\ ~session[c].t.live
    /\ \E header \in HeaderValues, random \in RandomIds :
          session' = [session EXCEPT ![c] =
                        [t |-> RouteGetMcp, header |-> header,
                         sessionId |-> SessionId(header, random)]]
    /\ UNCHANGED <<sseVars, postVars, toolVars, procVars, dateVars>>

\* The engine sends a message, once for each connection.
SessSend(c) ==
    /\ proc.state = "running"
    /\ session[c].t.live
    /\ session[c].t.sendCalls = 0
    /\ session' = [session EXCEPT ![c].t =
                     [TransportSend(@, 1) EXCEPT !.sendCalls = 1]]
    /\ UNCHANGED <<sseVars, postVars, toolVars, procVars, dateVars>>

\* close() is called, once for each connection.
SessClose(c) ==
    /\ proc.state = "running"
    /\ session[c].t.live
    /\ session[c].t.closeCalls = 0
    /\ session' = [session EXCEPT ![c].t =
                     [TransportClose(@) EXCEPT !.closeCalls = 1]]
    /\ UNCHANGED <<sseVars, postVars, toolVars, procVars, dateVars>>

\* The request's 'close' event.
SessReqClose(c) ==
    /\ proc.state = "running"
    /\ session[c].t.live
    /\ ~session[c].t.reqClosed
    /\ session' = [session EXCEPT ![c].t =
                     RouteOnReqClose(OnReqClose([@ EXCEPT !.reqClosed = TRUE]))]
    /\ UNCHANGED <<sseVars, postVars, toolVars, procVars, dateVars>>

\* start() is called on a transport that server.connect has started already.
SessStart(c) ==
    /\ proc.state = "running"
    /\ session[c].t.live
    /\ session[c].t.starts < 2
    /\ session' = [session EXCEPT ![c].t = TransportStart(@)]
    /\ UNCHANGED <<sseVars, postVars, toolVars, procVars, dateVars>>

\* The shutdown signals.
Signals == {"SIGINT", "SIGQUIT", "SIGTERM"}

Running == [state |-> "running", evt |-> "", code |-> 0]

\* handler(err, evt) of makeLogger: logs and calls process.exit(err ? 1 : 0).
Handler(err, evt) ==
    [state |-> "exited", evt |-> evt, code |-> IF err THEN 1 ELSE 0]

\* A signal without a listener (index.ts registers none): the process is
\* terminated by the signal and runs no code.
Terminated(sig) == [state |-> "killed", evt |-> sig, code |-> 0]

\* A shutdown signal arrives: the listener of makeLogger runs where logger.ts
\* is loaded, the default disposition applies where it is not.
Signal ==
    /\ proc.state = "running"
    /\ \E sig \in Signals : proc' \in {Handler(FALSE, sig), Terminated(sig)}
    /\ UNCHANGED <<sseVars, postVars, toolVars, sessionVars, dateVars>>

\* The events that carry a value to their listener, and the values tried:
\* an Error object, and the undefined of `throw undefined` or of a
\* Promise.reject() without a reason.
ErrorEvents == {"uncaughtException", "unhandledRejection"}
ErrValues == {"Error", "undefined"}

\* The value counts as true in `if (err)` and `err ? 1 : 0`.
Truthy(err) == err # "undefined"

\* 'beforeExit': the event loop has nothing left to do, no connection is
\* open.  The listener calls handler(null, 'beforeExit').
BeforeExit ==
    /\ proc.state = "running"
    /\ \A c \in Conns : ~session[c].t.live
    /\ proc' = Handler(FALSE, "beforeExit")
    /\ UNCHANGED <<sseVars, postVars, toolVars, sessionVars, dateVars>>

\* 'uncaughtException' or 'unhandledRejection': the listener passes the
\* thrown value or the rejection's reason to handler.
Uncaught ==
    /\ proc.state = "running"
    /\ \E evt \in ErrorEvents, err \in ErrValues :
          proc' = Handler(Truthy(err), evt)
    /\ UNCHANGED <<sseVars, postVars, toolVars, sessionVars, dateVars>>

SessionNext ==
    \/ \E c \in Conns :
          \/ SessAccept(c)
          \/ SessSend(c)
          \/ SessClose(c)
          \/ SessReqClose(c)
          \/ SessStart(c)
    \/ Signal
    \/ BeforeExit
    \/ Uncaught

Init ==
    /\ sse = [c \in Conns |-> NoTransport]
    /\ post = [e \in Exchanges |-> NoExchange]
    /\ binding = None
    /\ collided = FALSE
    /\ call = NoCall
    /\ session = [c \in Conns |-> NoSession]
    /\ proc = Running
    /\ parse = NoParse

Next ==
    \E c \in Conns :
        \/ GetMcp(c)
        \/ Construct(c)
        \/ SetCallbacks(c)
        \/ Start(c)
        \/ Send(c)
        \/ Close(c)
        \/ Heartbeat(c)
        \/ ReqClose(c)

\* The Push Transport alone.
Spec == Init /\ [][Next]_vars

\* The stateless POST /mcp server alone.
SpecPost == Init /\ [][PostNext]_vars

\* One tools/call request through the stateless server.
SpecTools == Init /\ [][ToolsNext]_vars

\* The session ids of the Push Transports.
SpecSession == Init /\ [][SessionNext]_vars

\* isoDateStringToDate alone.
SpecDate == Init /\ [][DateNext]_vars


(***************************************************************************)
(* Steps, told apart by what they count.                                   *)
(***************************************************************************)
CloseStep(c) == sse'[c].closeCalls = sse[c].closeCalls + 1
SendStep(c) == sse'[c].sendCalls = sse[c].sendCalls + 1
BeatStep(c) == sse'[c].beats = sse[c].beats + 1
PostStartStep(e) == post[e].pc = "idle" /\ post'[e].pc = "connecting"
ResCloseStep(e) == ~post[e].resClosed /\ post'[e].resClosed

\* The data frames of a channel, in order, without the keep-alive frames.
IsData(f) == f # KeepAlive
DataFrames(fr) == SelectSeq(fr, IsData)

\* Exchange e has a request under way whose response, if e runs on alone,
\* ends on e's own HTTP response: the server is connected to e's transport.
WillDeliver(e) ==
    /\ InFlight(e)
    /\ post[e].id # NoId
    /\ post[e].pc \in {"connecting", "dispatched"}
    /\ binding = e
    /\ post[e].pc = "dispatched" => post[e].captured = e /\ post[e].pending

(***************************************************************************)
(* C1. With pairwise distinct request ids among the POST exchanges in      *)
(* flight together, every response written to an HTTP response was caused  *)
(* by that exchange's own request and carries its id: no response is       *)
(* written on another exchange's channel.                                  *)
(***************************************************************************)
C1_NoCrossTalk ==
    ~collided =>
        \A e \in Exchanges : \A i \in 1..Len(post[e].chan) :
            post[e].chan[i].from = e /\ post[e].chan[i].id = post[e].id

\* Two exchanges with distinct ids, both open, both answered.
C1_Witness ==
    /\ ~collided
    /\ \E e, f \in Exchanges :
          /\ e # f
          /\ InFlight(e) /\ InFlight(f)
          /\ post[e].id # post[f].id
          /\ Len(post[e].chan) = 1 /\ Len(post[f].chan) = 1

(***************************************************************************)
(* C2. Every POST exchange has a Message Engine binding of its own: the    *)
(* server.connect of a later exchange never replaces the binding of an     *)
(* earlier exchange that is still in flight.                               *)
(***************************************************************************)
C2_ConnectKeepsEarlierBinding ==
    [][\A e, f \in Exchanges :
          (e # f /\ PostStartStep(f) /\ InFlight(e) /\ binding = e)
              => binding' = e]_vars

(***************************************************************************)
(* C3. When the channel of one POST exchange closes while another exchange *)
(* is in flight, the other is unaffected: an exchange that was going to    *)
(* get its own response is still going to get it.                          *)
(***************************************************************************)
C3_CloseLeavesSiblings ==
    [][\A a, b \in Exchanges :
          (a # b /\ ResCloseStep(a) /\ WillDeliver(b)) => WillDeliver(b)']_vars

(***************************************************************************)
(* C4. close() called more than once on one SseServerTransport notifies    *)
(* onclose once: the first call on a transport that holds its response     *)
(* notifies it, and every later call changes nothing and notifies nothing. *)
(***************************************************************************)
C4_CloseIdempotent ==
    [][\A c \in Conns : CloseStep(c) =>
          /\ (sse[c].res /\ sse[c].onclose) => sse'[c].nclose = sse[c].nclose + 1
          /\ sse[c].closeCalls >= 1 =>
                sse'[c] = [sse[c] EXCEPT !.closeCalls = @ + 1]
          /\ ~sse'[c].res]_vars

\* close() was called twice on a transport with onclose assigned, no peer
\* disconnect: one notification.
C4_Witness ==
    \E c \in Conns :
        /\ sse[c].closeCalls >= 2
        /\ sse[c].onclose
        /\ ~sse[c].reqClosed
        /\ sse[c].nclose = 1

(***************************************************************************)
(* C5. Over the lifetime of one Push Transport opened by GET /mcp, onclose *)
(* is notified exactly once in total, whichever of close() and the         *)
(* request's 'close' event come, and in whichever order.                   *)
(***************************************************************************)
C5_OncloseOnceAnyOrder ==
    \A c \in Conns :
        (sse[c].routed /\ (sse[c].closeCalls >= 1 \/ sse[c].reqClosed))
            => sse[c].nclose = 1

(***************************************************************************)
(* C6. After GET /mcp opened a Push Transport and the peer then            *)
(* disconnected, the keep-alive interval is cancelled, the transport has   *)
(* released its response, onclose was notified exactly once, and no frame  *)
(* is written to the channel any more.                                     *)
(***************************************************************************)
C6_PeerDisconnect ==
    /\ [](\A c \in Conns :
            (sse[c].routed /\ sse[c].reqClosed /\ sse[c].closesAtDisc = 0) =>
                /\ ~sse[c].timer
                /\ ~sse[c].res
                /\ sse[c].nclose = 1)
    /\ [][\A c \in Conns :
            (sse[c].routed /\ sse[c].reqClosed) =>
                /\ sse'[c].frames = sse[c].frames
                /\ sse'[c].beats = sse[c].beats]_vars

\* A routed connection that carried frames, then lost its peer, and on which
\* a send was tried afterwards.
C6_Witness ==
    \E c \in Conns :
        /\ sse[c].routed /\ sse[c].reqClosed /\ sse[c].closesAtDisc = 0
        /\ Len(sse[c].frames) >= 2
        /\ sse[c].lastSend = "rejected"
        /\ sse[c].nclose = 1

(***************************************************************************)
(* C7. onclose is never notified for a transport on which start() has not  *)
(* been called.                                                            *)
(***************************************************************************)
C7_NoOncloseBeforeStart ==
    \A c \in Conns : sse[c].nclose > 0 => sse[c].started

(***************************************************************************)
(* C8. send(message) on a transport whose channel is not writable writes   *)
(* nothing to any channel, notifies onerror and rejects.                   *)
(***************************************************************************)
C8_SendOnDeadChannel ==
    [][\A c \in Conns : (SendStep(c) /\ ~Writable(sse[c])) =>
          /\ \A d \in Conns : sse'[d].frames = sse[d].frames
          /\ sse'[c].lastSend = "rejected"
          /\ sse'[c].okSends = sse[c].okSends
          /\ sse[c].onerror => sse'[c].nerror = sse[c].nerror + 1]_vars

\* A send was rejected on a transport that had released its response, with
\* onerror assigned.
C8_Witness ==
    \E c \in Conns :
        /\ ~sse[c].res
        /\ sse[c].lastSend = "rejected"
        /\ sse[c].nerror >= 1
        /\ sse[c].okSends >= 1

(***************************************************************************)
(* C9. On a Push Transport every successful send writes exactly one data   *)
(* frame, and the data frames are on the channel in the order of the send  *)
(* calls, keep-alive frames in between or not.                             *)
(***************************************************************************)
C9_FramesInOrder ==
    \A c \in Conns :
        LET d == DataFrames(sse[c].frames)
        IN  /\ Len(d) = sse[c].okSends
            /\ \A i \in 1..Len(d) : d[i] = i

\* Two data frames with a keep-alive frame between them.
C9_Witness ==
    \E c \in Conns : sse[c].frames = <<1, KeepAlive, 2>>

(***************************************************************************)
(* C10. The keep-alive interval never writes to a dead channel: a tick on  *)
(* an ended response writes nothing and cancels the interval, a peer       *)
(* disconnect cancels it, and a cancelled interval never fires again.      *)
(***************************************************************************)
C10_NoBeatOnDeadChannel ==
    /\ [](\A c \in Conns : (sse[c].routed /\ sse[c].reqClosed) => ~sse[c].timer)
    /\ [][\A c \in Conns :
            /\ (BeatStep(c) /\ (sse[c].ended \/ sse[c].reqClosed)) =>
                  /\ sse'[c].frames = sse[c].frames
                  /\ ~sse'[c].timer
            /\ (sse[c].live /\ ~sse[c].timer) =>
                  /\ ~sse'[c].timer
                  /\ sse'[c].beats = sse[c].beats]_vars

\* The interval fired on a response that close() had ended, and was cancelled
\* by that tick.
C10_Witness ==
    \E c \in Conns :
        /\ sse[c].routed /\ sse[c].ended /\ ~sse[c].reqClosed
        /\ sse[c].beats >= 1
        /\ ~sse[c].timer

(***************************************************************************)
(* C11. While a Push Transport opened by GET /mcp is open (its response    *)
(* not ended, its peer connected) the keep-alive interval stays scheduled  *)
(* and every one of its ticks appends exactly one keep-alive frame; frames *)
(* already written stay where they are, so a tick that comes before the    *)
(* first message puts a keep-alive frame ahead of every data frame.        *)
(***************************************************************************)
OpenPush(t) == t.routed /\ ~t.ended /\ ~t.reqClosed

C11_KeepAliveWhileOpen ==
    /\ [](\A c \in Conns : OpenPush(sse[c]) => sse[c].timer)
    /\ [][\A c \in Conns :
            /\ (BeatStep(c) /\ OpenPush(sse[c])) =>
                  sse'[c].frames = Append(sse[c].frames, KeepAlive)
            /\ (BeatStep(c) /\ OpenPush(sse[c]) /\ sse[c].sendCalls = 0) =>
                  sse'[c].frames[1] = KeepAlive
            /\ Len(sse[c].frames) >= 1 =>
                  /\ Len(sse'[c].frames) >= Len(sse[c].frames)
                  /\ sse'[c].frames[1] = sse[c].frames[1]]_vars

\* An open connection whose first interval passed without a message: the
\* keep-alive frame is ahead of the data frame, and the interval still runs.
C11_Witness ==
    \E c \in Conns :
        /\ OpenPush(sse[c])
        /\ sse[c].frames = <<KeepAlive, 1>>
        /\ sse[c].timer

(***************************************************************************)
(* C12. Every JSON-RPC request POSTed to /mcp gets exactly one response    *)
(* on its own exchange: once the engine has replied to a request whose     *)
(* channel is open, the exchange carries status 200 and one event frame,   *)
(* caused by this request and with its id; no exchange ever carries more   *)
(* than one response.                                                      *)
(***************************************************************************)
IsRequest(x) == x.verb = "POST" /\ x.id # NoId

C12_ExactlyOneResponse ==
    \A e \in Exchanges :
        /\ Len(post[e].chan) <= 1
        /\ (IsRequest(post[e]) /\ post[e].pc = "done" /\ ~post[e].resClosed) =>
              /\ post[e].status = 200
              /\ Len(post[e].chan) = 1
              /\ post[e].chan[1] = [from |-> e, id |-> post[e].id]

(***************************************************************************)
(* C13. A notification POSTed to /mcp is acknowledged, not answered: it is *)
(* never handed on as a request awaiting a reply and its exchange never    *)
(* carries a response message; once handleRequest has returned, the        *)
(* exchange is ended with status 202 and no error envelope (nothing is     *)
(* written if the peer had left already). The 500 envelope appears on a    *)
(* notification's exchange only when the try block threw.                  *)
(***************************************************************************)
IsNotification(x) == x.verb = "POST" /\ x.id = NoId

C14_EveryOtherVerbRejected ==
    \A e \in Exchanges : post[e].verb \in OtherVerbs =>
        /\ post[e].status = 405
        /\ post[e].verb # "HEAD" =>
              /\ post[e].errCode = NotAllowedCode
              /\ post[e].errVerb = post[e].verb

(***************************************************************************)
(* C15. A GET or DELETE at /mcp of the stateless server is answered with   *)
(* status 405 and the error envelope of code -32000 naming the request's   *)
(* own verb, and nothing else happens: the exchange has no transport and   *)
(* no request with the engine, the server's binding stays as it was, and   *)
(* no other exchange changes.                                              *)
(***************************************************************************)
C15_GetDeleteRejected ==
    /\ [](\A e \in Exchanges : post[e].verb \in {"GET", "DELETE"} =>
            /\ post[e].status = 405
            /\ post[e].errCode = NotAllowedCode
            /\ post[e].errVerb = post[e].verb
            /\ post[e].ended
            /\ post[e].chan = <<>>
            /\ ~post[e].pending /\ ~post[e].tClosed
            /\ post[e].captured = None
            /\ binding # e)
    /\ [][\A e \in Exchanges :
            (post[e].pc = "idle" /\ post'[e].verb \in {"GET", "DELETE"}) =>
                /\ binding' = binding
                /\ collided' = collided
                /\ \A f \in Exchanges \ {e} : post'[f] = post[f]]_vars

\* A GET and a DELETE were rejected while a request of another exchange is
\* with the engine, the server still connected to that exchange's transport.
C15_Witness ==
    \E e, f, g \in Exchanges :
        /\ post[e].verb = "GET" /\ post[e].status = 405
        /\ post[g].verb = "DELETE" /\ post[g].errVerb = "DELETE"
        /\ post[f].pc = "dispatched" /\ binding = f

(***************************************************************************)
(* C16. When the try block of the POST handler throws: if nothing of the   *)
(* response was sent, the exchange gets status 500 and the one envelope of *)
(* code -32603 (id null) and is ended; if the status line was sent before, *)
(* no envelope is written and the status stays; if the peer had left,      *)
(* nothing is written. What the catch block left is not changed later, and *)
(* no exchange carries both a response message and the -32603 envelope.    *)
(***************************************************************************)
C16_FailureEnvelope ==
    /\ [](\A e \in Exchanges :
            /\ post[e].pc = "failed" =>
                  \/ /\ post[e].status = 500
                     /\ post[e].errCode = InternalError
                     /\ post[e].ended
                  \/ /\ post[e].status \in {200, 202}
                     /\ post[e].errCode = 0
                  \/ /\ post[e].status = 0
                     /\ post[e].errCode = 0
                     /\ post[e].resClosed
            /\ post[e].errCode = InternalError =>
                  /\ post[e].pc = "failed"
                  /\ post[e].status = 500
                  /\ post[e].chan = <<>>)
    /\ [][\A e \in Exchanges : post[e].pc = "failed" =>
            /\ post'[e].pc = "failed"
            /\ post'[e].status = post[e].status
            /\ post'[e].errCode = post[e].errCode]_vars

\* One exchange failed before anything was sent and carries the envelope;
\* another failed after its status line 200 and carries none.
C16_Witness ==
    \E e, f \in Exchanges :
        /\ post[e].pc = "failed" /\ post[e].status = 500
        /\ post[e].errCode = InternalError
        /\ post[f].pc = "failed" /\ post[f].status = 200
        /\ post[f].errCode = 0 /\ ~post[f].resClosed

(***************************************************************************)
(* C17. No client is left waiting on a POST exchange the server has        *)
(* stopped processing: once the handler is over, by the engine's reply or  *)
(* an acknowledgement or by the catch block, the HTTP response is ended.   *)
(***************************************************************************)
C17_HandlerOverResponseEnded ==
    \A e \in Exchanges :
        (post[e].verb = "POST" /\ post[e].pc \in {"done", "failed"}) => post[e].ended

(***************************************************************************)
(* C18. A tools/call request naming a tool that is not registered, alone   *)
(* on the server, is answered on its exchange with status 200 and one      *)
(* response message with the request's id that holds a result or an error  *)
(* other than the internal error; the exchange does not fail and carries   *)
(* no error envelope.                                                      *)
(***************************************************************************)
C18_UnknownToolAnswered ==
    (call.pc # "idle" /\ call.req.method = "tools/call" /\
     call.req.name \notin Tools) =>
        /\ call.http.status = 200
        /\ call.http.errCode = 0
        /\ call.http.pc # "failed"
        /\ call.pc = "replied" =>
              /\ call.reply.id = call.req.id
              /\ call.reply.member \in {"result", "error"}
              /\ call.reply.code # InternalError
              /\ call.http.chan = <<[from |-> "e1", id |-> call.req.id]>>
              /\ call.http.ended

\* The unknown tool was answered with a JSON-RPC error.
C18_Witness ==
    /\ call.pc = "replied"
    /\ call.req.name = "non-existent-tool"
    /\ call.reply.member = "error"
    /\ call.http.status = 200

(***************************************************************************)
(* C19. A failure inside a tool is carried by a successful result, never   *)
(* by a JSON-RPC error: every call of a tool taking a date and of          *)
(* convert-hebrew-to-gregorian is answered with status 200 and a result    *)
(* member; a date failing the format check gives the text 'Error parsing   *)
(* date', a month name that monthFromName does not interpret gives         *)
(* 'Cannot interpret', neither marked isError.                             *)
(***************************************************************************)
DateTools == {"convert-gregorian-to-hebrew", "yahrzeit", "torah-portion", "daf-yomi"}

C20_SessionIdFromHeader ==
    /\ [](\A c \in Conns : session[c].t.live =>
            /\ session[c].header \notin {NoHeader, ""} =>
                  session[c].sessionId = session[c].header
            /\ session[c].sessionId \in RandomIds <=>
                  session[c].header \in {NoHeader, ""})
    /\ [][\A c \in Conns : session[c].t.live =>
            /\ session'[c].sessionId = session[c].sessionId
            /\ session'[c].header = session[c].header]_vars

\* One connection came with an empty header and got a random id, another
\* with a header and got that; both were used and closed afterwards.
C20_Witness ==
    \E c, d \in Conns :
        /\ session[c].header = "" /\ session[c].sessionId \in RandomIds
        /\ session[d].header = "req-1" /\ session[d].sessionId = "req-1"
        /\ session[c].t.sendCalls = 1 /\ session[c].t.reqClosed
        /\ session[d].t.closeCalls = 1

(***************************************************************************)
(* C21. Session ids are unique: two Push Transports, open together or one  *)
(* after the other, of which at least one was opened with an x-request-id  *)
(* header, never have the same session id.                                 *)
(***************************************************************************)
HasHeader(x) == x.header \notin {NoHeader, ""}

C21_SessionIdsUnique ==
    \A c, d \in Conns :
        (c # d /\ session[c].t.live /\ session[d].t.live /\
         (HasHeader(session[c]) \/ HasHeader(session[d])))
            => session[c].sessionId # session[d].sessionId

(***************************************************************************)
(* C22. The closed state of a Push Transport is monotonic: once close()    *)
(* was called or the peer disconnected, the transport holds no response    *)
(* and never holds one again, every later send() is rejected and writes    *)
(* nothing, and every later close() changes nothing.                       *)
(***************************************************************************)
Closed(t) == t.closeCalls >= 1 \/ t.reqClosed

C22_ClosedIsMonotonic ==
    /\ [](\A c \in Conns : Closed(sse[c]) => ~sse[c].res)
    /\ [][\A c \in Conns : (sse[c].live /\ ~sse[c].res) =>
            /\ ~sse'[c].res
            /\ sse[c].ended => sse'[c].ended
            /\ SendStep(c) =>
                  /\ sse'[c].lastSend = "rejected"
                  /\ sse'[c].frames = sse[c].frames
            /\ CloseStep(c) =>
                  sse'[c] = [sse[c] EXCEPT !.closeCalls = @ + 1]]_vars

\* The peer disconnected; afterwards a send was rejected and close() was
\* called, and the transport is as the disconnect left it.
C22_Witness ==
    \E c \in Conns :
        /\ sse[c].reqClosed /\ sse[c].closesAtDisc = 0
        /\ sse[c].closeCalls >= 1
        /\ sse[c].lastSend = "rejected"
        /\ sse[c].okSends = 0
        /\ ~sse[c].res

(***************************************************************************)
(* C23. The close observer of a POST exchange is in place from the start   *)
(* of the handler: whenever the HTTP channel closes, be it before          *)
(* server.connect has returned, before handleRequest, or after, close()    *)
(* runs on this exchange's transport and on no other; no transport is      *)
(* left open behind a closed channel.                                      *)
(***************************************************************************)
C23_CloseObserverFirst ==
    /\ [](\A e \in Exchanges :
            (post[e].verb = "POST" /\ post[e].resClosed) => post[e].tClosed)
    /\ [][\A e \in Exchanges :
            (post[e].verb = "POST" /\ ResCloseStep(e)) =>
                /\ post'[e].tClosed
                /\ \A f \in Exchanges \ {e} :
                      post'[f].tClosed = post[f].tClosed]_vars

\* One channel closed while its handler waited on server.connect, another
\* after its request was dispatched; both transports are closed, a third
\* exchange's is not.
C23_Witness ==
    \E e, f, g \in Exchanges :
        /\ post[e].pc = "connecting" /\ post[e].resClosed /\ post[e].tClosed
        /\ post[f].pc = "dispatched" /\ post[f].resClosed /\ post[f].tClosed
        /\ post[g].pc = "connecting" /\ ~post[g].tClosed

(***************************************************************************)
(* C24. When the process has gone down on SIGINT, SIGQUIT or SIGTERM,      *)
(* every Push Transport that was open has been closed before: it has       *)
(* released its response.                                                  *)
(***************************************************************************)
C24_ShutdownClosesTransports ==
    proc.state # "running" =>
        \A c \in Conns : session[c].t.live => ~session[c].t.res

(***************************************************************************)
(* C25. On a POST exchange the response is written before the transport    *)
(* is closed: a response is written only to a transport that is not closed *)
(* and whose channel is open, as one whole frame that ends the stream;     *)
(* the transport is closed by the response's 'close' event and by nothing  *)
(* else; and what was written is not changed by the close or after it.     *)
(***************************************************************************)
C25_ResponseBeforeClose ==
    [][\A e \in Exchanges :
          /\ post'[e].chan # post[e].chan =>
                /\ ~post[e].tClosed /\ ~post[e].resClosed
                /\ \E m \in [from : Exchanges, id : ReqIds] :
                      post'[e].chan = Append(post[e].chan, m)
                /\ post'[e].ended
          /\ (~post[e].tClosed /\ post'[e].tClosed) => ResCloseStep(e)
          /\ post[e].tClosed => post'[e].tClosed]_vars

\* A request was answered on its own exchange and the transport closed
\* afterwards, the response still there.
C25_Witness ==
    \E e \in Exchanges :
        /\ IsRequest(post[e]) /\ post[e].pc = "done"
        /\ post[e].chan = <<[from |-> e, id |-> post[e].id]>>
        /\ post[e].tClosed /\ post[e].resClosed

(***************************************************************************)
(* C26. The state of a Push connection belongs to that connection alone:   *)
(* a send, a keep-alive tick, a close() or a peer disconnect of one        *)
(* connection leaves the response handle, the frames written, the          *)
(* keep-alive interval and the closed state of every other connection as   *)
(* they were.                                                              *)
(***************************************************************************)
Owned(t) == <<t.res, t.ended, t.frames, t.timer, t.reqClosed, t.nclose>>

C26_ConnectionOwnsItsState ==
    [][\A c, d \in Conns :
          (c # d /\ sse'[c] # sse[c]) => Owned(sse'[d]) = Owned(sse[d])]_vars

\* Two connections were opened by GET /mcp; one lost its peer and its
\* interval is cancelled, the other is open with its interval running and
\* keep-alive frames written.
C26_Witness ==
    \E c, d \in Conns :
        /\ c # d
        /\ sse[c].routed /\ sse[c].reqClosed /\ ~sse[c].timer
        /\ OpenPush(sse[d]) /\ sse[d].timer /\ sse[d].res
        /\ sse[d].beats >= 1 /\ sse[d].okSends >= 1

(***************************************************************************)
(* C27. A GET at /mcp of the HTTP server (server.js) opens an event        *)
(* stream: it is answered with status 200 and the response stays open.     *)
(***************************************************************************)
C27_GetOpensStream ==
    \A e \in Exchanges : post[e].verb = "GET" =>
        /\ post[e].status = 200
        /\ ~post[e].ended

(***************************************************************************)
(* C28. start() is accepted at most once by a transport: no instance ever  *)
(* has two start() calls that resolved.                                    *)
(***************************************************************************)
C28_StartAtMostOnce ==
    \A c \in Conns : session[c].t.starts <= 1

(***************************************************************************)
(* C29. tools/list is answered with exactly seven tools, named             *)
(* convert-gregorian-to-hebrew, convert-hebrew-to-gregorian, yahrzeit,     *)
(* torah-portion, jewish-holidays-year, daf-yomi and candle-lighting, each *)
(* once; every call of getServer() gives a server with these tools.        *)
(***************************************************************************)
Names(seq) == {seq[i] : i \in 1..Len(seq)}

C29_SevenTools ==
    (call.pc = "replied" /\ call.req.method = "tools/list") =>
        /\ call.reply.member = "result"
        /\ call.reply.id = call.req.id
        /\ Len(call.reply.tools) = 7
        /\ Names(call.reply.tools) =
              {"convert-gregorian-to-hebrew", "convert-hebrew-to-gregorian",
               "yahrzeit", "torah-portion", "jewish-holidays-year", "daf-yomi",
               "candle-lighting"}
        /\ \A n \in ServerCalls : GetServer(n) = call.reply.tools

\* tools/list was answered by the server of the second getServer() call.
C29_Witness ==
    /\ call.pc = "replied"
    /\ call.req.method = "tools/list"
    /\ call.req.server = 2
    /\ Len(call.reply.tools) = 7
    /\ call.http.status = 200

(***************************************************************************)
(* C30. A Push Transport has its four event-stream headers (Content-Type   *)
(* text/event-stream, Cache-Control no-cache, Connection keep-alive,       *)
(* X-Accel-Buffering no) set and flushed from its construction on, so      *)
(* every data frame and every keep-alive frame is written after them.      *)
(***************************************************************************)
C30_HeadersBeforeFrames ==
    /\ [](\A c \in Conns : sse[c].live =>
            /\ sse[c].flushed
            /\ sse[c].headers =
                  {<<"Content-Type", "text/event-stream">>,
                   <<"Cache-Control", "no-cache">>,
                   <<"Connection", "keep-alive">>,
                   <<"X-Accel-Buffering", "no">>})
    /\ [][\A c \in Conns : sse'[c].frames # sse[c].frames =>
            /\ sse[c].flushed
            /\ sse'[c].headers = sse[c].headers]_vars

\* A connection with flushed headers on which a data frame and then a
\* keep-alive frame were written.
C30_Witness ==
    \E c \in Conns :
        /\ sse[c].routed /\ sse[c].flushed
        /\ sse[c].frames = <<1, KeepAlive>>

(***************************************************************************)
(* C31. isoDateStringToDate returns, for every string of the form          *)
(* YYYY-MM-DD that denotes a real calendar date (years below 100           *)
(* included), a Date whose year, month and day are the string's fields,    *)
(* and throws the RangeError "Date does not match format YYYY-MM-DD" for   *)
(* every string that is not of that form.                                  *)
(***************************************************************************)
\* The string is four digits, "-", two digits, "-", two digits and nothing
\* else.
HasIsoForm(str) ==
    /\ Len(str) = 10
    /\ \A i \in {1, 2, 3, 4, 6, 7, 9, 10} :
          str[i] \in {"0", "1", "2", "3", "4", "5", "6", "7", "8", "9"}
    /\ str[5] = "-" /\ str[8] = "-"

\* The fields written in the first ten characters.
YearOf(str) == ParseInt(SubSeq(str, 1, 4))
MonthOf(str) == ParseInt(SubSeq(str, 6, 7))
DayOf(str) == ParseInt(SubSeq(str, 9, 10))

\* The fields name a day of the (proleptic) Gregorian calendar.
RealDate(str) ==
    /\ MonthOf(str) \in 1..12
    /\ DayOf(str) \in 1..DaysInMonth(YearOf(str), MonthOf(str) - 1)

C31_ParsesOrThrows ==
    parse.pc = "returned" =>
        /\ HasIsoForm(parse.str) /\ RealDate(parse.str) =>
              /\ parse.out.kind = "date"
              /\ parse.out.y = YearOf(parse.str)
              /\ parse.out.m + 1 = MonthOf(parse.str)
              /\ parse.out.d = DayOf(parse.str)
        /\ ~HasIsoForm(parse.str) =>
              /\ parse.out.kind = "RangeError"
              /\ parse.out.msg = "Date does not match format YYYY-MM-DD"

(***************************************************************************)
(* C32. isoDateStringToDate looks at the first ten characters only: a      *)
(* string that begins with four digits, "-", two digits, "-", two digits   *)
(* is accepted whatever follows, and a month outside 01-12 or a day        *)
(* outside the month is not rejected but gives a Date other than the one   *)
(* written.                                                                *)
(***************************************************************************)
C32_PrefixOnlyAndRollover ==
    parse.pc = "returned" /\ Len(parse.str) >= 10
        /\ HasIsoForm(SubSeq(parse.str, 1, 10)) =>
            /\ parse.out.kind = "date"
            /\ ~RealDate(parse.str) =>
                  \/ parse.out.y # YearOf(parse.str)
                  \/ parse.out.m + 1 # MonthOf(parse.str)
                  \/ parse.out.d # DayOf(parse.str)

\* "2024-13-45" was parsed, and gave 14 February 2025.
C32_Witness ==
    /\ parse.pc = "returned"
    /\ parse.str = <<"2", "0", "2", "4", "-", "1", "3", "-", "4", "5">>
    /\ parse.out.kind = "date"
    /\ parse.out.y = 2025 /\ parse.out.m = 1 /\ parse.out.d = 14

(***************************************************************************)
(* C33. doYahrzeit returns the two table header lines first, so its result *)
(* has at least two lines; the yahrzeit tool therefore never answers       *)
(* "No yahrzeit available", and when no anniversary exists in the Hebrew   *)
(* years scanned it answers with the table of headers and no data row.     *)
(***************************************************************************)
C33_YahrzeitHeadersAlways ==
    call.pc = "replied" /\ call.req.method = "tools/call"
        /\ call.req.name = "yahrzeit" =>
            /\ call.reply.text # "No yahrzeit available"
            /\ ~IsoDateThrows(call.req.args.date) /\ call.req.lib # "throws" =>
                  LET lines == DoYahrzeit(call.req.lib)
                  IN  /\ Len(lines) >= 2
                      /\ lines[1] = "| Anniversary number"
                      /\ lines[2] = "| ---- |"
                      /\ call.req.lib = "nothing" => Len(lines) = 2
                      /\ call.reply.member = "result"
                      /\ ~call.reply.isError
                      /\ call.reply.text = "| Anniversary number"

\* The yahrzeit tool was asked for a date without an anniversary in the
\* years scanned and answered with the table.
C33_Witness ==
    /\ call.pc = "replied" /\ call.req.method = "tools/call"
    /\ call.req.name = "yahrzeit"
    /\ ~IsoDateThrows(call.req.args.date)
    /\ call.req.lib = "nothing"
    /\ call.reply.text = "| Anniversary number"

(***************************************************************************)
(* C34. The candle-lighting tool answers with the tool-level message       *)
(* "Error parsing dates" whenever startDate or endDate does not match the  *)
(* date pattern, whatever candleLighting would have done; for the inputs   *)
(* that pass, the second parse inside candleLighting does not throw, so    *)
(* the handler fails only where the calendar library does.                 *)
(***************************************************************************)
C34_CandleLightingParseGuard ==
    call.pc = "replied" /\ call.req.method = "tools/call"
        /\ call.req.name = "candle-lighting" =>
            /\ IsoDateThrows(call.req.args.date)
                   \/ IsoDateThrows(call.req.args.endDate) =>
                  /\ call.reply.member = "result"
                  /\ ~call.reply.isError
                  /\ call.reply.text = "Error parsing dates"
            /\ call.reply.member = "result"
            /\ call.reply.isError =>
                  /\ call.req.lib = "throws"
                  /\ ~IsoDateThrows(call.req.args.date)
                  /\ ~IsoDateThrows(call.req.args.endDate)

\* candle-lighting was called with a good startDate, a bad endDate and a
\* library that would throw, and answered "Error parsing dates".
C34_Witness ==
    /\ call.pc = "replied" /\ call.req.method = "tools/call"
    /\ call.req.name = "candle-lighting"
    /\ ~IsoDateThrows(call.req.args.date)
    /\ IsoDateThrows(call.req.args.endDate)
    /\ call.req.lib = "throws"
    /\ call.reply.text = "Error parsing dates"

(***************************************************************************)
(* C35. The shutdown routine of makeLogger exits with status 1 exactly     *)
(* when it was triggered by uncaughtException or unhandledRejection, and   *)
(* with status 0 when triggered by beforeExit, SIGINT, SIGQUIT or SIGTERM. *)
(***************************************************************************)
C35_ExitStatusByTrigger ==
    proc.state = "exited" =>
        /\ proc.evt \in {"uncaughtException", "unhandledRejection"} => proc.code = 1
        /\ proc.evt \in {"beforeExit", "SIGINT", "SIGQUIT", "SIGTERM"} => proc.code = 0

====
